---------------------------- MODULE Spec2Model ----------------------------
(***************************************************************************)
(* tf_solver: brute-force search over postfix (RPN) expressions.           *)
(*                                                                         *)
(* The module models                                                       *)
(*   - the validator and the stack-machine evaluator (src/src/rpn.rs,      *)
(*     duplicated in src/src/main.rs),                                     *)
(*   - the backtracking generator in its two source variants               *)
(*     (src/src/generator.rs and src/src/main.rs),                         *)
(*   - the chunk adaptor Chunks (src/src/chunk_par.rs),                    *)
(*   - the search loop of main (src/src/main.rs).                          *)
(*                                                                         *)
(* f64 values are modelled by the integers of magnitude <= MaxExact, on    *)
(* which f64 arithmetic is exact, plus the two absorbing values NaN and    *)
(* OutOfRange (a result whose magnitude leaves the modelled range).        *)
(***************************************************************************)
EXTENDS Integers, Sequences, FiniteSets, Bags, TLC

\* ------------------------------------------------------------------ bounds
MaxDepth == 3          \* largest max_depth handed to the generator
MaxLen == 5            \* longest token sequence handed to is_valid_rpn / calculate
MaxItems == 5          \* longest input stream handed to Chunks
MaxChunk == 3          \* largest explicit chunk_size
MaxExact == 1000000    \* magnitude up to which values are modelled exactly
MaxSearchDepth == 2    \* largest max_depth of a search run
MaxThreads == 2        \* largest rayon pool

\* ------------------------------------------------------------ f64 (model)
NaN == MaxExact + 1
OutOfRange == MaxExact + 2

IsNum(v) == v # NaN /\ v # OutOfRange

fclamp(v) == IF v > MaxExact \/ v < -MaxExact THEN OutOfRange ELSE v

fabs(v) == IF ~IsNum(v) THEN v ELSE IF v < 0 THEN -v ELSE v

\* a * b, without leaving the integers the checker computes on.
fmul(a, b) ==
    IF a = 0 \/ b = 0 THEN 0
    ELSE IF fabs(a) > MaxExact \div fabs(b) THEN OutOfRange
    ELSE a * b

\* Rust's % on f64 (fmod): sign of the dividend, NaN for a zero divisor.
frem(a, b) ==
    IF b = 0 THEN NaN
    ELSE LET m == fabs(a) % fabs(b) IN IF a < 0 THEN -m ELSE m

\* fn(f64) -> f64 payload of a UnaryOperator, by dispatch tag.
ApplyUnary(function, a) ==
    IF a = NaN THEN NaN
    ELSE IF a = OutOfRange THEN OutOfRange
    ELSE CASE function = "square" -> fmul(a, a)
           [] function = "abs" -> fabs(a)

\* fn(f64, f64) -> f64 payload of a BinaryOperator, by dispatch tag.
ApplyBinary(function, a, b) ==
    IF a = NaN \/ b = NaN THEN NaN
    ELSE IF a = OutOfRange \/ b = OutOfRange THEN OutOfRange
    ELSE CASE function = "add" -> fclamp(a + b)
           [] function = "sub" -> fclamp(a - b)
           [] function = "mul" -> fmul(a, b)
           [] function = "rem" -> frem(a, b)

\* ------------------------------------------------------------------ types
Operand(symbol, value) == [kind |-> "Operand", symbol |-> symbol, value |-> value]
UnaryOperator(symbol, function) ==
    [kind |-> "UnaryOperator", symbol |-> symbol, function |-> function]
BinaryOperator(symbol, function) ==
    [kind |-> "BinaryOperator", symbol |-> symbol, function |-> function]

\* Vocabulary tables (ordered lists), in the style of prepare_opes and of
\* the operands of test_calculate.
AllOperands == << Operand("1.0", 1), Operand("2.0", 2), Operand("3.0", 3), Operand("4.0", 4) >>
AllUnary == << UnaryOperator("^2", "square"), UnaryOperator("abs", "abs") >>
AllBinary == << BinaryOperator("+", "add"), BinaryOperator("-", "sub"),
                BinaryOperator("*", "mul"), BinaryOperator("mod", "rem") >>

Range(s) == { s[i] : i \in 1..Len(s) }

RECURSIVE Concat(_)
Concat(ss) == IF ss = << >> THEN << >> ELSE Head(ss) \o Concat(Tail(ss))

\* -------------------------------------------------------------- rpn.rs
RECURSIVE is_valid_loop(_, _, _)

\* Mutant of is_valid_loop: a binary operator is accepted on a stack of one.
is_valid_loop_loose(tokens, i, stack_size) ==
    IF i > Len(tokens) THEN stack_size = 1
    ELSE LET token == tokens[i] IN
         CASE token.kind = "Operand" ->
                is_valid_loop(tokens, i + 1, stack_size + 1)
           [] token.kind = "UnaryOperator" ->
                IF stack_size < 1 THEN FALSE
                ELSE is_valid_loop(tokens, i + 1, stack_size)
           [] token.kind = "BinaryOperator" ->
                IF stack_size < 1 THEN FALSE
                ELSE IF stack_size - 1 < 0 THEN FALSE
                ELSE is_valid_loop(tokens, i + 1, stack_size - 1)

\* The loop of is_valid_rpn from token i on, with its early returns.
is_valid_loop(tokens, i, stack_size) ==
    IF i > Len(tokens) THEN stack_size = 1
    ELSE LET token == tokens[i] IN
         CASE token.kind = "Operand" ->
                is_valid_loop(tokens, i + 1, stack_size + 1)
           [] token.kind = "UnaryOperator" ->
                IF stack_size < 1 THEN FALSE
                ELSE is_valid_loop(tokens, i + 1, stack_size)
           [] token.kind = "BinaryOperator" ->
                IF stack_size < 2 THEN FALSE
                ELSE IF stack_size - 1 < 0 THEN FALSE
                ELSE is_valid_loop(tokens, i + 1, stack_size - 1)

is_valid_rpn(tokens) ==
    IF tokens = << >> THEN FALSE ELSE is_valid_loop(tokens, 1, 0)

\* The outcome of a call: ret is "value" or the panic that ended it.
Outcome(ret, value, pushes, pops) ==
    [ret |-> ret, value |-> value, pushes |-> pushes, pops |-> pops]

RECURSIVE calculate_loop(_, _, _, _, _)

\* Mutant of calculate_loop: the operands of a binary operator are swapped.
calculate_loop_swapped(tokens, i, stack, pushes, pops) ==
    IF i > Len(tokens)
    THEN IF stack = << >> THEN Outcome("panic_unwrap", NaN, pushes, pops)
         ELSE Outcome("value", stack[Len(stack)], pushes, pops + 1)
    ELSE LET token == tokens[i] IN
         CASE token.kind = "Operand" ->
                calculate_loop(tokens, i + 1, Append(stack, token.value), pushes + 1, pops)
           [] token.kind = "UnaryOperator" ->
                IF stack = << >> THEN Outcome("panic_unwrap", NaN, pushes, pops)
                ELSE LET value == stack[Len(stack)]
                         rest == SubSeq(stack, 1, Len(stack) - 1)
                     IN calculate_loop(tokens, i + 1,
                            Append(rest, ApplyUnary(token.function, value)),
                            pushes + 1, pops + 1)
           [] token.kind = "BinaryOperator" ->
                IF stack = << >> THEN Outcome("panic_unwrap", NaN, pushes, pops)
                ELSE IF Len(stack) = 1 THEN Outcome("panic_unwrap", NaN, pushes, pops + 1)
                ELSE LET right == stack[Len(stack)]
                         left == stack[Len(stack) - 1]
                         rest == SubSeq(stack, 1, Len(stack) - 2)
                     IN calculate_loop(tokens, i + 1,
                            Append(rest, ApplyBinary(token.function, right, left)),
                            pushes + 1, pops + 2)

\* The evaluation loop of calculate from token i on. stack.pop().unwrap()
\* panics on an empty stack.
calculate_loop(tokens, i, stack, pushes, pops) ==
    IF i > Len(tokens)
    THEN IF stack = << >> THEN Outcome("panic_unwrap", NaN, pushes, pops)
         ELSE Outcome("value", stack[Len(stack)], pushes, pops + 1)
    ELSE LET token == tokens[i] IN
         CASE token.kind = "Operand" ->
                calculate_loop(tokens, i + 1, Append(stack, token.value), pushes + 1, pops)
           [] token.kind = "UnaryOperator" ->
                IF stack = << >> THEN Outcome("panic_unwrap", NaN, pushes, pops)
                ELSE LET value == stack[Len(stack)]
                         rest == SubSeq(stack, 1, Len(stack) - 1)
                     IN calculate_loop(tokens, i + 1,
                            Append(rest, ApplyUnary(token.function, value)),
                            pushes + 1, pops + 1)
           [] token.kind = "BinaryOperator" ->
                IF stack = << >> THEN Outcome("panic_unwrap", NaN, pushes, pops)
                ELSE IF Len(stack) = 1 THEN Outcome("panic_unwrap", NaN, pushes, pops + 1)
                ELSE LET right == stack[Len(stack)]
                         left == stack[Len(stack) - 1]
                         rest == SubSeq(stack, 1, Len(stack) - 2)
                     IN calculate_loop(tokens, i + 1,
                            Append(rest, ApplyBinary(token.function, left, right)),
                            pushes + 1, pops + 2)

\* Mutant of calculate: the assertion is missing.
calculate_unchecked(tokens) == calculate_loop(tokens, 1, << >>, 0, 0)

calculate(tokens) ==
    IF ~is_valid_rpn(tokens) THEN Outcome("panic_assert", NaN, 0, 0)
    ELSE calculate_loop(tokens, 1, << >>, 0, 0)

\* ---------------------------------------------------------- generator.rs
\* aux_generate, its lazy iterator collected into the list it yields:
\* operand_iter.chain(unary_iter).chain(binary_iter). Each of the three is
\* a flat_map over its vocabulary list in order; operand_iter(.., k) is the
\* part of that flat_map from list entry k on (likewise unary_iter,
\* binary_iter).
RECURSIVE aux_generate(_, _, _, _, _, _, _, _)
RECURSIVE operand_iter(_, _, _, _, _, _, _, _, _)
RECURSIVE unary_iter(_, _, _, _, _, _, _, _, _)
RECURSIVE binary_iter(_, _, _, _, _, _, _, _, _)

\* Mutant of operand_iter: every branch appends the first operand.
operand_iter_first(operands, unary_operators, binary_operators, operands_needed, unary_ops_needed, binary_ops_needed, current_sequence, stack_size, k) ==
    IF k > Len(operands) THEN << >>
    ELSE aux_generate(operands, unary_operators, binary_operators,
             operands_needed - 1, unary_ops_needed, binary_ops_needed,
             Append(current_sequence, operands[1]), stack_size + 1)
         \o operand_iter(operands, unary_operators, binary_operators,
             operands_needed, unary_ops_needed, binary_ops_needed,
             current_sequence, stack_size, k + 1)

operand_iter(operands, unary_operators, binary_operators, operands_needed, unary_ops_needed, binary_ops_needed, current_sequence, stack_size, k) ==
    IF k > Len(operands) THEN << >>
    ELSE aux_generate(operands, unary_operators, binary_operators,
             operands_needed - 1, unary_ops_needed, binary_ops_needed,
             Append(current_sequence, operands[k]), stack_size + 1)
         \o operand_iter(operands, unary_operators, binary_operators,
             operands_needed, unary_ops_needed, binary_ops_needed,
             current_sequence, stack_size, k + 1)

unary_iter(operands, unary_operators, binary_operators, operands_needed, unary_ops_needed, binary_ops_needed, current_sequence, stack_size, k) ==
    IF k > Len(unary_operators) THEN << >>
    ELSE aux_generate(operands, unary_operators, binary_operators,
             operands_needed, unary_ops_needed - 1, binary_ops_needed,
             Append(current_sequence, unary_operators[k]), stack_size)
         \o unary_iter(operands, unary_operators, binary_operators,
             operands_needed, unary_ops_needed, binary_ops_needed,
             current_sequence, stack_size, k + 1)

\* Mutant of binary_iter: the binary operators are taken last to first.
binary_iter_rev(operands, unary_operators, binary_operators, operands_needed, unary_ops_needed, binary_ops_needed, current_sequence, stack_size, k) ==
    IF k > Len(binary_operators) THEN << >>
    ELSE binary_iter(operands, unary_operators, binary_operators,
             operands_needed, unary_ops_needed, binary_ops_needed,
             current_sequence, stack_size, k + 1)
         \o aux_generate(operands, unary_operators, binary_operators,
             operands_needed, unary_ops_needed, binary_ops_needed - 1,
             Append(current_sequence, binary_operators[k]), stack_size - 1)

binary_iter(operands, unary_operators, binary_operators, operands_needed, unary_ops_needed, binary_ops_needed, current_sequence, stack_size, k) ==
    IF k > Len(binary_operators) THEN << >>
    ELSE aux_generate(operands, unary_operators, binary_operators,
             operands_needed, unary_ops_needed, binary_ops_needed - 1,
             Append(current_sequence, binary_operators[k]), stack_size - 1)
         \o binary_iter(operands, unary_operators, binary_operators,
             operands_needed, unary_ops_needed, binary_ops_needed,
             current_sequence, stack_size, k + 1)

\* Mutant of aux_generate: a binary operator is appended on a stack of one.
aux_generate_loose(operands, unary_operators, binary_operators, operands_needed, unary_ops_needed, binary_ops_needed, current_sequence, stack_size) ==
    IF operands_needed = 0 /\ unary_ops_needed = 0 /\ binary_ops_needed = 0
    THEN IF stack_size = 1 THEN << current_sequence >> ELSE << >>
    ELSE (IF operands_needed > 0 /\ operands # << >>
          THEN operand_iter(operands, unary_operators, binary_operators,
                   operands_needed, unary_ops_needed, binary_ops_needed,
                   current_sequence, stack_size, 1)
          ELSE << >>)
         \o
         (IF unary_ops_needed > 0 /\ stack_size >= 1 /\ unary_operators # << >>
          THEN unary_iter(operands, unary_operators, binary_operators,
                   operands_needed, unary_ops_needed, binary_ops_needed,
                   current_sequence, stack_size, 1)
          ELSE << >>)
         \o
         (IF binary_ops_needed > 0 /\ stack_size >= 1 /\ binary_operators # << >>
          THEN binary_iter(operands, unary_operators, binary_operators,
                   operands_needed, unary_ops_needed, binary_ops_needed,
                   current_sequence, stack_size, 1)
          ELSE << >>)

aux_generate(operands, unary_operators, binary_operators, operands_needed, unary_ops_needed, binary_ops_needed, current_sequence, stack_size) ==
    IF operands_needed = 0 /\ unary_ops_needed = 0 /\ binary_ops_needed = 0
    THEN IF stack_size = 1 THEN << current_sequence >> ELSE << >>
    ELSE (IF operands_needed > 0 /\ operands # << >>
          THEN operand_iter(operands, unary_operators, binary_operators,
                   operands_needed, unary_ops_needed, binary_ops_needed,
                   current_sequence, stack_size, 1)
          ELSE << >>)
         \o
         (IF unary_ops_needed > 0 /\ stack_size >= 1 /\ unary_operators # << >>
          THEN unary_iter(operands, unary_operators, binary_operators,
                   operands_needed, unary_ops_needed, binary_ops_needed,
                   current_sequence, stack_size, 1)
          ELSE << >>)
         \o
         (IF binary_ops_needed > 0 /\ stack_size >= 2 /\ binary_operators # << >>
          THEN binary_iter(operands, unary_operators, binary_operators,
                   operands_needed, unary_ops_needed, binary_ops_needed,
                   current_sequence, stack_size, 1)
          ELSE << >>)

\* generator.rs: num_operands = depth, num_binary_ops = depth - 1, and
\* num_unary_ops ranges over 0..=max_unary_ops with max_unary_ops = depth.
\* with_depth_from(.., num_unary_ops) is the flat_map from that split on.
RECURSIVE with_depth_from(_, _, _, _, _)
with_depth_from(operands, unary_operators, binary_operators, depth, num_unary_ops) ==
    IF num_unary_ops > depth THEN << >>
    ELSE aux_generate(operands, unary_operators, binary_operators,
             depth, num_unary_ops, depth - 1, << >>, 0)
         \o with_depth_from(operands, unary_operators, binary_operators,
                depth, num_unary_ops + 1)

generate_valid_tokens_with_depth(operands, unary_operators, binary_operators, depth) ==
    IF depth = 0 THEN << >>
    ELSE with_depth_from(operands, unary_operators, binary_operators, depth, 0)

\* main.rs: unary_ops_needed ranges over 0..depth (exclusive),
\* operands_needed = depth - unary_ops_needed, binary_ops_needed = operands_needed - 1.
RECURSIVE main_with_depth_from(_, _, _, _, _)
main_with_depth_from(operands, unary_operators, binary_operators, depth, unary_ops_needed) ==
    IF unary_ops_needed >= depth THEN << >>
    ELSE LET operands_needed == depth - unary_ops_needed
             binary_ops_needed == operands_needed - 1
         IN aux_generate(operands, unary_operators, binary_operators,
                operands_needed, unary_ops_needed, binary_ops_needed, << >>, 0)
            \o main_with_depth_from(operands, unary_operators, binary_operators,
                   depth, unary_ops_needed + 1)

main_generate_valid_tokens_with_depth(operands, unary_operators, binary_operators, depth) ==
    IF depth = 0 THEN << >>
    ELSE main_with_depth_from(operands, unary_operators, binary_operators, depth, 0)

\* generate_valid_tokens: (1..=max_depth).flat_map(generate_valid_tokens_with_depth),
\* from depth `depth` on. variant names the source file whose
\* generate_valid_tokens_with_depth is compiled in.
with_depth(variant, operands, unary_operators, binary_operators, depth) ==
    IF variant = "main.rs"
    THEN main_generate_valid_tokens_with_depth(operands, unary_operators, binary_operators, depth)
    ELSE generate_valid_tokens_with_depth(operands, unary_operators, binary_operators, depth)

RECURSIVE generate_from(_, _, _, _, _, _)
generate_from(variant, operands, unary_operators, binary_operators, max_depth, depth) ==
    IF depth > max_depth THEN << >>
    ELSE with_depth(variant, operands, unary_operators, binary_operators, depth)
         \o generate_from(variant, operands, unary_operators, binary_operators,
                max_depth, depth + 1)

generate_valid_tokens(variant, operands, unary_operators, binary_operators, max_depth) ==
    generate_from(variant, operands, unary_operators, binary_operators, max_depth, 1)

\* ------------------------------------------------------------------ state
VARIABLES
    variant,            \* "generator.rs" or "main.rs": which generator source runs
    operands,           \* vocabulary: operand list
    unary_operators,    \* vocabulary: unary operator list
    binary_operators,   \* vocabulary: binary operator list
    max_depth,          \* Args::max_depth
    gen_depth,          \* generator: depth the outer flat_map is at
    gen_inner,          \* generator: items the inner iterator has left to yield
    gen_item,           \* generator: Option of the last item next() returned
    gen_seen,           \* generator: number of next() calls made so far
    gen_out,            \* generator: the items yielded so far, in order
    tokens,             \* rpn: the argument of is_valid_rpn / calculate
    rpn_valid,          \* rpn: Option of the value is_valid_rpn returned
    rpn_result,         \* rpn: Option of the outcome of calculate
    ch_input,           \* Chunks: the items the wrapped iterator started with
    ch_iter,            \* Chunks: iter, as the items it has left to yield
    ch_size,            \* Chunks: chunk_size
    ch_out,             \* Chunks: the chunks next() returned so far, in order
    ch_done,            \* Chunks: next() has returned None
    target,             \* Args::target
    tolerance,          \* Args::tolerance
    output,             \* Args::output: Option of the log file's name
    chunk_size_arg,     \* Option of the value given for --chunk-size
    chunk_size,         \* Args::chunk_size
    num_threads,        \* size of the rayon pool
    valid_tokens,       \* main: valid_tokens, as the items it has left to yield
    chunk,              \* main: the chunk collected into a Vec
    workers,            \* main: per pool thread, the part of chunk it holds
    stdout,             \* the lines written to standard output, as a bag
    logfile,            \* the lines written to the output file, as a bag
    calc_calls,         \* main: per candidate, in stream order, the calls of calculate on it
    pc                  \* main: "idle", "running", "done" or "panicked"

gen_vars == << variant, operands, unary_operators, binary_operators, max_depth,
               gen_depth, gen_inner, gen_item, gen_seen, gen_out >>
rpn_vars == << tokens, rpn_valid, rpn_result >>
ch_vars == << ch_input, ch_iter, ch_size, ch_out, ch_done >>
args_vars == << target, tolerance, output, chunk_size_arg, chunk_size, num_threads >>
main_vars == << args_vars, valid_tokens, chunk, workers, stdout, logfile,
               calc_calls, pc >>
vars == << gen_vars, rpn_vars, ch_vars, main_vars >>

None == << >>
Some(x) == << x >>

GenIdle ==
    /\ variant = "main.rs" /\ operands = << >> /\ unary_operators = << >>
    /\ binary_operators = << >> /\ max_depth = 0
    /\ gen_depth = 0 /\ gen_inner = << >> /\ gen_item = None /\ gen_seen = 0
    /\ gen_out = << >>
RpnIdle == tokens = << >> /\ rpn_valid = None /\ rpn_result = None
ChunksIdle ==
    /\ ch_input = << >> /\ ch_iter = << >> /\ ch_size = 0 /\ ch_out = << >>
    /\ ch_done = FALSE
MainIdle ==
    /\ target = 0 /\ tolerance = 0 /\ output = None /\ chunk_size_arg = None
    /\ chunk_size = 0 /\ num_threads = 0
    /\ valid_tokens = << >> /\ chunk = << >> /\ workers = << >>
    /\ stdout = EmptyBag /\ logfile = EmptyBag /\ calc_calls = << >>
    /\ pc = "idle"

\* ------------------------------------------------- generator as iterator
\* Vocabularies the generator is run on: how many entries of AllOperands,
\* AllUnary and AllBinary (in table order) each list holds.
Vocabularies ==
    { <<0, 1, 1>>, <<1, 0, 0>>, <<1, 1, 0>>, <<1, 0, 1>>, <<1, 1, 1>>,
      <<2, 0, 1>>, <<2, 1, 0>>, <<1, 2, 0>>, <<2, 0, 2>> }

Variants == { "generator.rs", "main.rs" }

GenInit ==
    /\ variant \in Variants
    /\ \E v \in Vocabularies :
         /\ operands = SubSeq(AllOperands, 1, v[1])
         /\ unary_operators = SubSeq(AllUnary, 1, v[2])
         /\ binary_operators = SubSeq(AllBinary, 1, v[3])
    /\ max_depth \in 0..MaxDepth
    /\ gen_depth = 0 /\ gen_inner = << >> /\ gen_item = None /\ gen_seen = 0
    /\ gen_out = << >>
    /\ RpnIdle /\ ChunksIdle /\ MainIdle

\* The flat_map's next(): the depth and inner iterator it ends at, skipping
\* depths that yield nothing.
RECURSIVE flat_map_advance(_, _, _, _, _, _, _)
flat_map_advance(v, ops, uops, bops, maxd, depth, inner) ==
    IF inner # << >> \/ depth >= maxd THEN [depth |-> depth, inner |-> inner]
    ELSE flat_map_advance(v, ops, uops, bops, maxd, depth + 1,
             with_depth(v, ops, uops, bops, depth + 1))

\* next() returns Some(item).
GenNext ==
    LET at == flat_map_advance(variant, operands, unary_operators, binary_operators,
                  max_depth, gen_depth, gen_inner)
    IN /\ gen_item # None \/ gen_seen = 0
       /\ at.inner # << >>
       /\ gen_depth' = at.depth
       /\ gen_item' = Some(Head(at.inner))
       /\ gen_inner' = Tail(at.inner)
       /\ gen_seen' = gen_seen + 1
       /\ gen_out' = Append(gen_out, Head(at.inner))
       /\ UNCHANGED << variant, operands, unary_operators, binary_operators, max_depth >>
       /\ UNCHANGED << rpn_vars, ch_vars, main_vars >>

\* next() returns None: every depth 1..=max_depth is exhausted.
GenEnd ==
    LET at == flat_map_advance(variant, operands, unary_operators, binary_operators,
                  max_depth, gen_depth, gen_inner)
    IN /\ gen_item # None \/ gen_seen = 0
       /\ at.inner = << >>
       /\ gen_depth' = at.depth
       /\ gen_item' = None
       /\ gen_inner' = << >>
       /\ gen_seen' = gen_seen + 1
       /\ gen_out' = gen_out
       /\ UNCHANGED << variant, operands, unary_operators, binary_operators, max_depth >>
       /\ UNCHANGED << rpn_vars, ch_vars, main_vars >>

GenDone == gen_item = None /\ gen_seen > 0

GenNextStep == GenNext \/ GenEnd
SpecGen == GenInit /\ [][GenNextStep]_vars

\* ----------------------------------------------------- generator claims
CountKind(ts, kind) == Cardinality({ i \in 1..Len(ts) : ts[i].kind = kind })

SeqsUpTo(S, n) == UNION { [1..k -> S] : k \in 0..n }

Vocabulary == Range(operands) \cup Range(unary_operators) \cup Range(binary_operators)

\* C1: every token sequence the generator yields, for every vocabulary and
\* every max_depth, is accepted by is_valid_rpn.
C1_GeneratedIsValid ==
    gen_item # None => is_valid_rpn(gen_item[1])

\* C1 witness: generator.rs has yielded a sequence that holds a binary and a
\* unary operator.
C1_Witness ==
    /\ variant = "generator.rs"
    /\ gen_item # None
    /\ CountKind(gen_item[1], "BinaryOperator") >= 1
    /\ CountKind(gen_item[1], "UnaryOperator") >= 1

\* C2 (the claim as stated): a sequence yielded at depth d holds d operand
\* and unary tokens together, and one binary token fewer than operands.
C2_DepthBudget ==
    gen_item # None =>
        /\ CountKind(gen_item[1], "Operand") + CountKind(gen_item[1], "UnaryOperator")
             = gen_depth
        /\ CountKind(gen_item[1], "BinaryOperator")
             = CountKind(gen_item[1], "Operand") - 1

\* What C2 says of the generator of main.rs alone.
MainDepthBudget == variant = "main.rs" => C2_DepthBudget

\* The sequences C3 requires in the stream: accepted by is_valid_rpn, with
\* operand count plus unary count in 1..max_depth.
Required ==
    { t \in SeqsUpTo(Vocabulary, 2 * max_depth) :
        /\ is_valid_rpn(t)
        /\ CountKind(t, "Operand") + CountKind(t, "UnaryOperator") \in 1..max_depth }

\* C3 (the claim as stated): once the stream has ended, every required
\* sequence has been yielded.
C3_Complete ==
    GenDone => \A t \in Required : t \in Range(gen_out)

\* What C3 says of the generator of main.rs alone.
MainComplete == variant = "main.rs" => C3_Complete

\* ------------------------------------------------ rpn.rs as operations
\* Tokens the validator and the evaluator are called on: the operands and
\* the "^2" of test_calculate, and "+", "-", "*".
RpnTokens ==
    Range(AllOperands) \cup { AllUnary[1] } \cup { AllBinary[k] : k \in 1..3 }

RpnInit ==
    /\ tokens \in SeqsUpTo(RpnTokens, MaxLen)
    /\ rpn_valid = None /\ rpn_result = None
    /\ GenIdle /\ ChunksIdle /\ MainIdle

\* A call is_valid_rpn(&tokens).
IsValidRpn ==
    /\ rpn_valid = None /\ rpn_result = None
    /\ rpn_valid' = Some(is_valid_rpn(tokens))
    /\ UNCHANGED << tokens, rpn_result >>
    /\ UNCHANGED << gen_vars, ch_vars, main_vars >>

\* A call calculate(&tokens).
Calculate ==
    /\ rpn_valid = None /\ rpn_result = None
    /\ rpn_result' = Some(calculate(tokens))
    /\ UNCHANGED << tokens, rpn_valid >>
    /\ UNCHANGED << gen_vars, ch_vars, main_vars >>

RpnNext == IsValidRpn \/ Calculate
SpecRpn == RpnInit /\ [][RpnNext]_vars

\* ----------------------------------------------------------- rpn claims
\* The counter of the stack-balance invariant after the first i tokens,
\* requirements aside: +1 per operand, -1 per binary operator.
Height(ts, i) ==
    Cardinality({ j \in 1..i : ts[j].kind = "Operand" })
      - Cardinality({ j \in 1..i : ts[j].kind = "BinaryOperator" })

Balanced(ts) ==
    /\ Len(ts) > 0
    /\ \A i \in 1..Len(ts) :
         /\ ts[i].kind = "UnaryOperator" => Height(ts, i - 1) >= 1
         /\ ts[i].kind = "BinaryOperator" => Height(ts, i - 1) >= 2
    /\ Height(ts, Len(ts)) = 1

\* The value of a balanced postfix expression, read as a term from its
\* last token: an operand, f(x) on the term before it, or f(left, right)
\* on the two terms before it.
RECURSIVE TermValue(_)
TermValue(ts) ==
    LET n == Len(ts)
        last == ts[n]
    IN CASE last.kind = "Operand" -> last.value
         [] last.kind = "UnaryOperator" ->
              ApplyUnary(last.function, TermValue(SubSeq(ts, 1, n - 1)))
         [] last.kind = "BinaryOperator" ->
              LET k == CHOOSE k \in 2..(n - 1) :
                           Balanced(SubSeq(ts, 1, k - 1)) /\ Balanced(SubSeq(ts, k, n - 1))
              IN ApplyBinary(last.function,
                     TermValue(SubSeq(ts, 1, k - 1)), TermValue(SubSeq(ts, k, n - 1)))

Tok(symbol) == CHOOSE t \in RpnTokens : t.symbol = symbol

\* C5: on a sequence is_valid_rpn rejects, calculate ends in the invalid-RPN
\* assertion with no push and no pop performed, and returns no value.
C5_InvalidFaultsFirst ==
    (rpn_result # None /\ ~is_valid_rpn(tokens)) =>
        /\ rpn_result[1].ret = "panic_assert"
        /\ rpn_result[1].pushes = 0
        /\ rpn_result[1].pops = 0

\* C5 witness: calculate was called on [operand, binary_op] and faulted.
C5_Witness ==
    /\ tokens = << Tok("1.0"), Tok("+") >>
    /\ rpn_result # None
    /\ rpn_result[1].ret = "panic_assert"

\* C6: on a valid sequence calculate returns the value of the postfix
\* expression (binary operators applied as f(left, right)), leaving the
\* stack empty after the result is taken; [a, b, -] is a - b,
\* [1, 2, square, +] is 5 and [2, 3, +, 4, *] is 20.
C6_StackMachineValue ==
    (rpn_result # None /\ is_valid_rpn(tokens)) =>
        /\ rpn_result[1].ret = "value"
        /\ rpn_result[1].value = TermValue(tokens)
        /\ rpn_result[1].pushes = rpn_result[1].pops
        /\ (Len(tokens) = 3 /\ tokens[1].kind = "Operand" /\ tokens[2].kind = "Operand"
              /\ tokens[3] = Tok("-"))
             => rpn_result[1].value = tokens[1].value - tokens[2].value
        /\ tokens = << Tok("1.0"), Tok("2.0"), Tok("^2"), Tok("+") >>
             => rpn_result[1].value = 5
        /\ tokens = << Tok("2.0"), Tok("3.0"), Tok("+"), Tok("4.0"), Tok("*") >>
             => rpn_result[1].value = 20

\* C6 witness: calculate returned 20 for [2, 3, +, 4, *].
C6_Witness ==
    /\ tokens = << Tok("2.0"), Tok("3.0"), Tok("+"), Tok("4.0"), Tok("*") >>
    /\ rpn_result # None
    /\ rpn_result[1].ret = "value"
    /\ rpn_result[1].value = 20

\* C7: is_valid_rpn returns true exactly on the non-empty sequences whose
\* counter meets every requirement and ends at 1; it returns false on the
\* empty sequence and on [operand, binary_op].
C7_ValidIffBalanced ==
    rpn_valid # None =>
        /\ rpn_valid[1] = Balanced(tokens)
        /\ tokens = << >> => rpn_valid[1] = FALSE
        /\ (Len(tokens) = 2 /\ tokens[1].kind = "Operand"
              /\ tokens[2].kind = "BinaryOperator") => rpn_valid[1] = FALSE

\* C7 witness: is_valid_rpn returned true on a sequence that holds a binary
\* and a unary operator.
C7_Witness ==
    /\ rpn_valid = Some(TRUE)
    /\ CountKind(tokens, "BinaryOperator") >= 1
    /\ CountKind(tokens, "UnaryOperator") >= 1

\* ------------------------------------------------------------ chunk_par.rs
\* The for loop of Chunks::next from its k-th round on: the chunk built and
\* what is left of iter.
RECURSIVE take_loop(_, _, _, _)

\* Mutant of take_loop: the loop runs one round too many and drops the item
\* it fetches when the chunk is already full.
RECURSIVE take_loop_lossy(_, _, _, _)
take_loop_lossy(iter, vec, k, size) ==
    IF k >= size
    THEN [chunk |-> vec,
          iter |-> IF iter # << >> /\ size > 0 THEN Tail(iter) ELSE iter]
    ELSE IF iter # << >>
         THEN take_loop_lossy(Tail(iter), Append(vec, Head(iter)), k + 1, size)
         ELSE [chunk |-> vec, iter |-> iter]

\* Mutant of take_loop: the range of the loop is 0..=chunk_size.
take_loop_inclusive(iter, vec, k, size) ==
    IF k > size THEN [chunk |-> vec, iter |-> iter]
    ELSE IF iter # << >>
         THEN take_loop(Tail(iter), Append(vec, Head(iter)), k + 1, size)
         ELSE [chunk |-> vec, iter |-> iter]

take_loop(iter, vec, k, size) ==
    IF k >= size THEN [chunk |-> vec, iter |-> iter]
    ELSE IF iter # << >>
         THEN take_loop(Tail(iter), Append(vec, Head(iter)), k + 1, size)
         ELSE [chunk |-> vec, iter |-> iter]

ChunkItems == 1..3

\* vec.into_iter().chunks_n(chunk_size)
ChunksInit ==
    /\ ch_input \in SeqsUpTo(ChunkItems, MaxItems)
    /\ ch_iter = ch_input
    /\ ch_size \in 0..MaxChunk
    /\ ch_out = << >>
    /\ ch_done = FALSE
    /\ GenIdle /\ RpnIdle /\ MainIdle

\* Chunks::next returns Some(chunk).
ChunksNextSome ==
    LET r == take_loop(ch_iter, << >>, 0, ch_size)
    IN /\ ~ch_done
       /\ r.chunk # << >>
       /\ ch_iter' = r.iter
       /\ ch_out' = Append(ch_out, r.chunk)
       /\ UNCHANGED << ch_input, ch_size, ch_done >>
       /\ UNCHANGED << gen_vars, rpn_vars, main_vars >>

\* Chunks::next returns None.
ChunksNextNone ==
    LET r == take_loop(ch_iter, << >>, 0, ch_size)
    IN /\ ~ch_done
       /\ r.chunk = << >>
       /\ ch_iter' = r.iter
       /\ ch_done' = TRUE
       /\ UNCHANGED << ch_input, ch_size, ch_out >>
       /\ UNCHANGED << gen_vars, rpn_vars, main_vars >>

ChunksStep == ChunksNextSome \/ ChunksNextNone
SpecChunks == ChunksInit /\ [][ChunksStep]_vars

\* C4: for chunk_size >= 1 the chunks returned so far followed by what iter
\* has left are the input, and once next() has returned None the chunks
\* concatenated in emission order are the input.
C4_ChunksLossless ==
    ch_size >= 1 =>
        /\ Concat(ch_out) \o ch_iter = ch_input
        /\ ch_done => Concat(ch_out) = ch_input

\* C4 witness: a stream of five items was chunked by two into three chunks
\* and next() has returned None.
C4_Witness ==
    /\ ch_done
    /\ ch_size = 2
    /\ Len(ch_input) = 5
    /\ Len(ch_out) = 3

\* C16: every chunk returned is non-empty and holds at most chunk_size
\* items, every chunk but the last returned holds exactly chunk_size, and a
\* chunk shorter than chunk_size leaves nothing in the iterator, so that it
\* is the last; with chunk_size = 0 no chunk is ever returned, no item is
\* consumed, and the first call of next() returns None.
C16_ChunkSizes ==
    /\ \A i \in 1..Len(ch_out) :
          /\ Len(ch_out[i]) >= 1
          /\ Len(ch_out[i]) <= ch_size
          /\ i < Len(ch_out) => Len(ch_out[i]) = ch_size
    /\ (ch_out # << >> /\ Len(ch_out[Len(ch_out)]) < ch_size) => ch_iter = << >>
    /\ ch_size = 0 =>
          /\ ch_out = << >>
          /\ ch_iter = ch_input
          /\ ~ch_done => ENABLED ChunksNextNone

\* C16 witness: a stream of five items was chunked by three: a full chunk,
\* then a last chunk of two, then None.
C16_Witness ==
    /\ ch_done
    /\ ch_size = 3
    /\ Len(ch_input) = 5
    /\ Len(ch_out) = 2
    /\ Len(ch_out[2]) = 2

\* The case of chunk_size = 0 on a non-empty input: next() has returned None.
ZeroChunkSizeEnded == ch_size = 0 /\ ch_input # << >> /\ ch_done

\* ------------------------------------------------------------------ main.rs
\* Rust's ^ on integers: bitwise exclusive or.
RECURSIVE BitXor(_, _)
BitXor(a, b) ==
    IF a = 0 THEN b
    ELSE IF b = 0 THEN a
    ELSE (((a % 2) + (b % 2)) % 2) + 2 * BitXor(a \div 2, b \div 2)

\* #[arg(short = 'c', long, default_value_t = 2 ^ 16)]
DefaultChunkSize == BitXor(2, 16)

\* Display of a Token, of a TokenVec and of an f64.
RECURSIVE TokenVecFmt(_, _)
TokenVecFmt(ts, i) ==
    IF i > Len(ts) THEN ""
    ELSE (IF i > 1 THEN " " ELSE "") \o ts[i].symbol \o TokenVecFmt(ts, i + 1)

F64Fmt(v) == IF v = NaN THEN "NaN" ELSE IF v = OutOfRange THEN "inf" ELSE ToString(v)

\* format!("{}: {}", TokenVec(&tokens), calculate(&tokens))
MatchLine(ts) == TokenVecFmt(ts, 1) \o ": " \o F64Fmt(calculate(ts).value)

\* The line the tracing fmt subscriber writes for info!: the event's level,
\* thread id, file and line, then the message (timestamp left out).
InfoLine(ts) == "INFO ThreadId src/main.rs:406: " \o MatchLine(ts)

\* A whole line written to a sink. The order of the lines of different
\* threads is left out: a sink is the bag of its lines.
WriteLine(sink, line) == sink (+) SetToBag({ line })

\* Mutant of IsMatch: the abs() is missing.
IsMatchNoAbs(ts) ==
    LET v == calculate(ts).value
    IN IF ~IsNum(v) THEN FALSE ELSE v - target < tolerance

\* Mutant of IsMatch: the test is written !(difference >= tolerance), which
\* is true of a NaN.
IsMatchNotGeq(ts) ==
    LET v == calculate(ts).value
    IN IF v = NaN THEN TRUE
       ELSE IF ~IsNum(v) THEN FALSE ELSE ~(fabs(v - target) >= tolerance)

\* The filter closure: (calculate(&tokens) - args.target).abs() < args.tolerance.
\* A comparison with NaN is false.
IsMatch(ts) ==
    LET v == calculate(ts).value
    IN IF ~IsNum(v) THEN FALSE ELSE fabs(v - target) < tolerance

\* Mutant of ItertoolsChunk: a group takes one item more than size.
ItertoolsChunkGreedy(iter, size) ==
    LET n == IF Len(iter) < size + 1 THEN Len(iter) ELSE size + 1
    IN [chunk |-> SubSeq(iter, 1, n), iter |-> SubSeq(iter, n + 1, Len(iter))]

\* itertools' chunks(size): the next group, at most size items, and what is
\* left of the iterator.
ItertoolsChunk(iter, size) ==
    LET n == IF Len(iter) < size THEN Len(iter) ELSE size
    IN [chunk |-> SubSeq(iter, 1, n), iter |-> SubSeq(iter, n + 1, Len(iter))]

\* Vocabularies a search is run on, as for the generator.
SearchVocabularies == { <<2, 1, 1>> }

\* A vocabulary some of whose candidates evaluate to NaN, as "e acos" does
\* with the tables of main: x mod 0.0 is NaN.
NanVocabulary ==
    [operands |-> << AllOperands[4], Operand("0.0", 0) >>,
     unary_operators |-> << >>,
     binary_operators |-> << AllBinary[4] >>]

Targets == { 4 }
Tolerances == { 1, 2 }

Threads == 1..num_threads
IdleWorker == [pc |-> "idle", lo |-> 0, hi |-> 0]
AllIdle == \A w \in Threads : workers[w].pc = "idle"

\* The threads of the pool are interchangeable: workers lists the parts in
\* progress in the order of their position in the chunk, then the idle
\* threads.
Settle(ws) ==
    LET busy == { w \in DOMAIN ws : ws[w].pc # "idle" }
        rank(w) == 1 + Cardinality({ u \in busy : ws[u].lo < ws[w].lo })
    IN [k \in DOMAIN ws |->
          IF \E w \in busy : rank(w) = k
          THEN ws[CHOOSE w \in busy : rank(w) = k]
          ELSE IdleWorker]

\* Args::parse(), the vocabulary tables and generate_valid_tokens(..).
MainInit ==
    /\ variant = "main.rs"
    /\ \/ \E v \in SearchVocabularies :
            /\ operands = SubSeq(AllOperands, 1, v[1])
            /\ unary_operators = SubSeq(AllUnary, 1, v[2])
            /\ binary_operators = SubSeq(AllBinary, 1, v[3])
       \/ /\ operands = NanVocabulary.operands
          /\ unary_operators = NanVocabulary.unary_operators
          /\ binary_operators = NanVocabulary.binary_operators
    /\ max_depth \in 0..MaxSearchDepth
    /\ target \in Targets
    /\ tolerance \in Tolerances
    /\ output \in { None, Some("out.log") }
    /\ chunk_size_arg \in { None } \cup { Some(n) : n \in 0..MaxChunk }
    /\ chunk_size = IF chunk_size_arg = None THEN DefaultChunkSize ELSE chunk_size_arg[1]
    /\ num_threads \in 1..MaxThreads
    /\ valid_tokens = generate_valid_tokens(variant, operands, unary_operators,
                          binary_operators, max_depth)
    /\ chunk = << >>
    /\ workers = [w \in Threads |-> IdleWorker]
    /\ stdout = EmptyBag /\ logfile = EmptyBag
    /\ calc_calls = [i \in 1..Len(valid_tokens) |-> 0]
    /\ pc = "idle"
    /\ gen_depth = 0 /\ gen_inner = << >> /\ gen_item = None /\ gen_seen = 0
    /\ gen_out = << >>
    /\ RpnIdle /\ ChunksIdle

MainUnchanged ==
    /\ UNCHANGED << gen_vars, rpn_vars, ch_vars, args_vars >>

\* valid_tokens.chunks(args.chunk_size): itertools asserts size != 0.
StartChunks ==
    /\ pc = "idle"
    /\ pc' = IF chunk_size = 0 THEN "panicked" ELSE "running"
    /\ UNCHANGED << valid_tokens, chunk, workers, stdout, logfile, calc_calls >>
    /\ MainUnchanged

\* The outer for_each takes the next chunk, collects it and hands it to the
\* pool: par_iter starts as one job over the whole Vec.
NextChunk ==
    LET r == ItertoolsChunk(valid_tokens, chunk_size)
    IN /\ pc = "running" /\ AllIdle
       /\ r.chunk # << >>
       /\ valid_tokens' = r.iter
       /\ chunk' = r.chunk
       /\ workers' = [workers EXCEPT ![1] = [pc |-> "filter", lo |-> 1, hi |-> Len(r.chunk)]]
       /\ UNCHANGED << stdout, logfile, calc_calls, pc >>
       /\ MainUnchanged

\* The chunk iterator is exhausted: the outer for_each ends and main returns.
Finish ==
    /\ pc = "running" /\ AllIdle
    /\ ItertoolsChunk(valid_tokens, chunk_size).chunk = << >>
    /\ pc' = "done"
    /\ chunk' = << >>
    /\ UNCHANGED << valid_tokens, workers, stdout, logfile, calc_calls >>
    /\ MainUnchanged

\* rayon splits a job: an idle thread v takes the upper half of what
\* thread w has not started. Idle threads are interchangeable: the one of
\* lowest index takes it.
Split(w, v) ==
    /\ pc = "running"
    /\ workers[w].pc = "filter" /\ workers[w].hi > workers[w].lo
    /\ workers[v].pc = "idle"
    /\ \A u \in Threads : workers[u].pc = "idle" => v <= u
    /\ LET mid == workers[w].lo + (workers[w].hi - workers[w].lo + 1) \div 2
       IN workers' = Settle([workers EXCEPT
                        ![w] = [pc |-> "filter", lo |-> workers[w].lo, hi |-> mid - 1],
                        ![v] = [pc |-> "filter", lo |-> mid, hi |-> workers[w].hi]])
    /\ UNCHANGED << valid_tokens, chunk, stdout, logfile, calc_calls, pc >>
    /\ MainUnchanged

\* The position in the generator's stream of item i of the current chunk.
StreamIndex(i) == Len(calc_calls) - Len(valid_tokens) - Len(chunk) + i

\* Mutant of Advance: the thread moves on by two items.
AdvanceSkip(wk) ==
    IF wk.lo + 2 > wk.hi THEN IdleWorker
    ELSE [pc |-> "filter", lo |-> wk.lo + 2, hi |-> wk.hi]

\* The worker's position after it is through with item lo.
Advance(wk) ==
    IF wk.lo + 1 > wk.hi THEN IdleWorker
    ELSE [pc |-> "filter", lo |-> wk.lo + 1, hi |-> wk.hi]

\* .filter(|tokens| ..) on the thread's next item.
Filter(w) ==
    /\ pc = "running"
    /\ workers[w].pc = "filter"
    /\ workers' = Settle([workers EXCEPT
                     ![w] = IF IsMatch(chunk[workers[w].lo])
                            THEN [@ EXCEPT !.pc = "for_each"]
                            ELSE Advance(@)])
    /\ calc_calls' = [calc_calls EXCEPT ![StreamIndex(workers[w].lo)] = @ + 1]
    /\ UNCHANGED << valid_tokens, chunk, stdout, logfile, pc >>
    /\ MainUnchanged

\* .for_each(|tokens| { println!(..); info!(..); }) on a match:
\* println!("{}: {}", TokenVec(&tokens), calculate(&tokens)) writes to
\* standard output; for info!("{}: {}", ..) the subscriber writes to the file
\* appender when --output is given and to std::io::stdout otherwise.
ForEach(w) ==
    /\ pc = "running"
    /\ workers[w].pc = "for_each"
    /\ LET ts == chunk[workers[w].lo]
           printed == WriteLine(stdout, MatchLine(ts))
       IN IF output = None
          THEN /\ stdout' = WriteLine(printed, InfoLine(ts))
               /\ UNCHANGED logfile
          ELSE /\ stdout' = printed
               /\ logfile' = WriteLine(logfile, InfoLine(ts))
    /\ calc_calls' = [calc_calls EXCEPT ![StreamIndex(workers[w].lo)] = @ + 2]
    /\ workers' = Settle([workers EXCEPT ![w] = Advance(@)])
    /\ UNCHANGED << valid_tokens, chunk, pc >>
    /\ MainUnchanged

Next ==
    \/ StartChunks
    \/ NextChunk
    \/ Finish
    \/ \E w \in Threads, v \in Threads : Split(w, v)
    \/ \E w \in Threads : Filter(w)
    \/ \E w \in Threads : ForEach(w)

Spec == MainInit /\ [][Next]_vars

\* The run under its scheduling: main's thread and the pool's threads are
\* operating-system threads, none of which is held back forever, so a run
\* that can take a step eventually takes one.
FairSpec == Spec /\ WF_vars(Next)

\* ------------------------------------------------------ generator order
\* The place of a token among the extensions of a partial sequence:
\* operands in vocabulary order, then unary operators in vocabulary order,
\* then binary operators in vocabulary order.
IndexIn(list, tok) == CHOOSE i \in 1..Len(list) : list[i] = tok

BranchRank(tok) ==
    IF tok.kind = "Operand" THEN IndexIn(operands, tok)
    ELSE IF tok.kind = "UnaryOperator"
         THEN Len(operands) + IndexIn(unary_operators, tok)
         ELSE Len(operands) + Len(unary_operators) + IndexIn(binary_operators, tok)

\* The first position at which two different sequences of one length differ.
FirstDiff(x, y) ==
    CHOOSE k \in 1..Len(x) : x[k] # y[k] /\ \A j \in 1..(k - 1) : x[j] = y[j]

\* x, emitted at depth dx, has its place before y, emitted at depth dy: an
\* earlier depth, or the same depth and fewer unary operators, or the same
\* depth and split and the earlier branch where the two part.
EmittedBefore(x, dx, y, dy) ==
    LET ux == CountKind(x, "UnaryOperator")
        uy == CountKind(y, "UnaryOperator")
    IN \/ dx < dy
       \/ dx = dy /\ ux < uy
       \/ /\ dx = dy /\ ux = uy
          /\ Len(x) = Len(y) /\ x # y
          /\ BranchRank(x[FirstDiff(x, y)]) < BranchRank(y[FirstDiff(x, y)])

\* C13: every item is emitted at a depth of 1..max_depth, and each item the
\* generator yields has its place after the one yielded before it: depths
\* increase, within a depth the unary-count splits increase, and within a
\* split, where two sequences part, the operand extensions come before the
\* unary ones and those before the binary ones, each in vocabulary order.
C13_EnumerationOrder ==
    /\ [](gen_item # None => gen_depth \in 1..max_depth)
    /\ [][(gen_item # None /\ gen_item' # None) =>
            EmittedBefore(gen_item[1], gen_depth, gen_item'[1], gen_depth')]_vars

\* C13 witness: the last two items yielded are of one depth and split and
\* part at a position where the earlier one has an operand and the later
\* one a binary operator.
C13_Witness ==
    /\ Len(gen_out) >= 2
    /\ LET x == gen_out[Len(gen_out) - 1]
           y == gen_out[Len(gen_out)]
       IN /\ Len(x) = Len(y) /\ x # y
          /\ CountKind(x, "UnaryOperator") = CountKind(y, "UnaryOperator")
          /\ x[FirstDiff(x, y)].kind = "Operand"
          /\ y[FirstDiff(x, y)].kind = "BinaryOperator"

\* The entries of a vocabulary list are pairwise distinct.
Distinct(list) == Cardinality(Range(list)) = Len(list)

\* C15: when the entries of each vocabulary list are pairwise distinct, the
\* items yielded so far are pairwise different, within a depth and across
\* depths.
C15_NoDuplicates ==
    (Distinct(operands) /\ Distinct(unary_operators) /\ Distinct(binary_operators))
        => Cardinality(Range(gen_out)) = Len(gen_out)

\* C15 witness: the stream has ended after yielding items of different
\* operand counts and items of one operand count with different unary
\* counts, from a vocabulary with operators of both kinds.
C15_Witness ==
    /\ GenDone
    /\ unary_operators # << >> /\ binary_operators # << >>
    /\ \E i, j \in 1..Len(gen_out) :
          CountKind(gen_out[i], "Operand") # CountKind(gen_out[j], "Operand")
    /\ \E i, j \in 1..Len(gen_out) :
          /\ CountKind(gen_out[i], "Operand") = CountKind(gen_out[j], "Operand")
          /\ CountKind(gen_out[i], "UnaryOperator") # CountKind(gen_out[j], "UnaryOperator")

\* ------------------------------------------------------- search claims
\* The candidates of a run, as a sequential run over the generator yields them.
Candidates ==
    generate_valid_tokens("main.rs", operands, unary_operators, binary_operators, max_depth)

\* The matches a sequential reference run finds: every candidate is
\* evaluated as a term and compared with the target.
ReferenceMatches ==
    { ts \in Range(Candidates) :
        LET v == TermValue(ts)
        IN /\ IsNum(v)
           /\ v - target < tolerance
           /\ target - v < tolerance }

\* The candidates a run has reported on standard output.
Reported == { ts \in Range(Candidates) : BagIn(MatchLine(ts), stdout) }

\* C8: when the search loop has ended, the set of sequences it reported is
\* the set a sequential reference run finds, whatever chunk_size >= 1, pool
\* size and schedule the run had.
C8_MatchSetDeterministic ==
    pc = "done" => Reported = ReferenceMatches

\* C8 witness: a run with two threads and chunks of three has ended and
\* reported matches from more than one chunk.
C8_Witness ==
    /\ pc = "done"
    /\ num_threads = 2
    /\ chunk_size = 3
    /\ Cardinality(Reported) >= 2
    /\ Len(Candidates) > 3

\* C9 (the claim as stated): without --chunk-size the chunk size is in the
\* tens of thousands.
C9_DefaultInTensOfThousands ==
    chunk_size_arg = None => chunk_size \in 10000..99999

\* Lines of a sink that report the candidate ts.
LinesFor(ts, sink) == CopiesIn(MatchLine(ts), sink) + CopiesIn(InfoLine(ts), sink)

\* C10 (the claim as stated): when the run has ended, a candidate within the
\* tolerance has exactly one output line, of the form "<symbols>: <value>",
\* a candidate outside it has none, and no sink holds two lines for a match.
C10_OneLinePerMatch ==
    pc = "done" =>
        \A ts \in Range(Candidates) :
            IF IsMatch(ts)
            THEN /\ LinesFor(ts, stdout) + LinesFor(ts, logfile) = 1
                 /\ CopiesIn(MatchLine(ts), stdout) + CopiesIn(MatchLine(ts), logfile) = 1
                 /\ LinesFor(ts, stdout) <= 1
                 /\ LinesFor(ts, logfile) <= 1
            ELSE LinesFor(ts, stdout) + LinesFor(ts, logfile) = 0

\* What the code does instead: every match has its println! line on
\* standard output once and its info! line once, on the log file when
\* --output is given and on standard output otherwise.
MainTwoLinesPerMatch ==
    pc = "done" =>
        \A ts \in Range(Candidates) :
            LET n == IF IsMatch(ts) THEN 1 ELSE 0
            IN /\ CopiesIn(MatchLine(ts), stdout) = n
               /\ CopiesIn(InfoLine(ts), stdout) = (IF output = None THEN n ELSE 0)
               /\ CopiesIn(InfoLine(ts), logfile) = (IF output = None THEN 0 ELSE n)

\* The candidates whose value is NaN.
NanCandidates == { ts \in Range(Candidates) : calculate(ts).value = NaN }

\* C11: the run does not panic for chunk_size >= 1, and when it has ended
\* no candidate whose value is NaN has an output line on any sink (the sinks
\* only grow) and every candidate, those after a NaN one included, went
\* through the filter.
C11_NanNeverMatches ==
    /\ chunk_size >= 1 => pc # "panicked"
    /\ pc = "done" =>
          /\ \A ts \in NanCandidates :
                LinesFor(ts, stdout) + LinesFor(ts, logfile) = 0
          /\ \A i \in 1..Len(Candidates) : calc_calls[i] >= 1

\* C11 witness: a run has ended in which a NaN candidate was evaluated by
\* the filter, a candidate generated after it was evaluated too, and a
\* match was reported.
C11_Witness ==
    /\ pc = "done"
    /\ Reported # { }
    /\ \E i \in 1..Len(Candidates) :
          /\ Candidates[i] \in NanCandidates
          /\ calc_calls[i] = 1
          /\ i < Len(Candidates)
          /\ calc_calls[i + 1] >= 1

\* The states of the run: Idle, Running (the generator has candidates left),
\* Draining (it has none left), Terminated; a panic is none of them.
Phase ==
    IF pc = "idle" THEN 1
    ELSE IF pc = "running" THEN (IF valid_tokens # << >> THEN 2 ELSE 3)
    ELSE IF pc = "done" THEN 4
    ELSE 5

\* Steps a part in progress has left at most: three per item, less what is
\* done of the first.
JobLeft(wk) ==
    IF wk.pc = "idle" THEN 0
    ELSE 3 * (wk.hi - wk.lo + 1) - (IF wk.pc = "for_each" THEN 2 ELSE 1)

RECURSIVE JobsLeft(_, _)
JobsLeft(ws, k) == IF k = 0 THEN 0 ELSE JobLeft(ws[k]) + JobsLeft(ws, k - 1)

\* A bound on the steps the run has left.
WorkLeft ==
    3 * Len(valid_tokens) + JobsLeft(workers, num_threads)
    + (IF pc = "idle" THEN 2 ELSE IF pc = "running" THEN 1 ELSE 0)

\* C12 (the claim as stated): a run that has stopped is Terminated, and
\* calculate was called exactly once on every generated candidate.
C12_EveryRunEvaluatesOnce ==
    pc \in { "done", "panicked" } =>
        /\ pc = "done"
        /\ \A i \in 1..Len(calc_calls) : calc_calls[i] = 1

\* The run can take a step: a thread that holds a part takes its Filter or
\* ForEach step, which has no other condition; when no thread holds one,
\* main's thread can take one of its steps.
CanStep ==
    \/ pc = "running" /\ ~AllIdle
    \/ ENABLED (StartChunks \/ NextChunk \/ Finish)

\* C12 (amended): for chunk_size >= 1 the run terminates. It never panics,
\* it can take a step until it has ended, every step uses up some of a finite
\* amount of work left and never goes back in the order Idle, Running,
\* Draining, Terminated, and it ends only from Draining. When it has ended
\* every generated candidate went through the filter exactly once: calculate
\* was called on it once if it is no match and three times if it is one
\* (once by the filter, twice for the two output lines).
C12_RunsToExhaustion ==
    /\ [](chunk_size >= 1 =>
            /\ pc # "panicked"
            /\ WorkLeft >= 0
            /\ pc # "done" => CanStep
            /\ pc = "done" =>
                  /\ Len(calc_calls) = Len(Candidates)
                  /\ \A i \in 1..Len(calc_calls) :
                        calc_calls[i] = IF IsMatch(Candidates[i]) THEN 3 ELSE 1)
    /\ [][chunk_size >= 1 =>
            /\ WorkLeft' < WorkLeft
            /\ Phase' >= Phase
            /\ Phase' = 4 => Phase = 3]_vars

\* Under the scheduling of FairSpec a run with chunk_size >= 1 ends.
Terminates == chunk_size >= 1 => <>(pc = "done")

\* C12 witness: a run over more than one chunk has ended, having evaluated
\* matches and other candidates.
C12_Witness ==
    /\ pc = "done"
    /\ chunk_size >= 1
    /\ Len(calc_calls) > chunk_size
    /\ \E i, j \in 1..Len(calc_calls) : calc_calls[i] = 1 /\ calc_calls[j] = 3

\* Candidates the generator has yielded, and those of them the filter has
\* not evaluated yet.
Generated == Len(calc_calls) - Len(valid_tokens)
InFlight == Generated - Cardinality({ i \in 1..Len(calc_calls) : calc_calls[i] >= 1 })

=============================================================================
